---- MODULE Spec2Model ----
(***************************************************************************)
(* Model of the workbook <-> NocoDB synchronisation scripts:               *)
(*   scripts/nocodb-publish.py  (workbook files -> remote base)            *)
(*   scripts/nocodb-save.py     (remote base -> workbook files)            *)
(*                                                                         *)
(* Python values are modelled as follows.                                  *)
(*   - Optional values (None or x) are sequences of length <= 1:           *)
(*     None is <<>>, x is <<x>>.                                           *)
(*   - Text that the code builds by formatting is a sequence of characters *)
(*     and the formatting is concatenation.                                *)
(*   - A function that may raise returns [err, val]; err = "none" means    *)
(*     it returned val.                                                    *)
(*   - The remote service is the environment: every request is answered    *)
(*     with success or failure, chosen nondeterministically.               *)
(***************************************************************************)
EXTENDS Integers, Sequences, FiniteSets, TLC

VARIABLES
    \* ---- workbook directory (input of publish) ----
    metadata,       \* {workbook}/metadata.yaml: "ok", "notitle", "empty" or "missing"
    tablesDir,      \* does {workbook}/tables exist
    tableFiles,     \* parsed *.yaml documents of the tables directory, by filename
    \* ---- remote service ----
    bases,          \* list of bases the service holds: [id, title, description]
    \* ---- one publish_workbook run ----
    runs,           \* number of runs started so far
    pc,             \* position of the running script
    owner_email,    \* --owner-email of the run
    base_id,        \* local base_id of publish_workbook (Optional)
    tables,         \* local tables of publish_base
    ti,             \* index of the table the for loop of publish_base is at
    rj,             \* index of the row the for loop of publish_table_to_nocodb is at
    columns_with_id,\* local columns_with_id of publish_table_to_nocodb
    calls,          \* requests the run has sent to the service, in order
    logged,         \* tables for which publish_base logged "Error publishing table"
    raised,         \* tables whose publish_table_to_nocodb raised
    outcome,        \* how the run ended
    startBase,      \* id of the base carrying the run's description when it started
    \* ---- schema normalizer applied to one column list ----
    ncols,          \* the column list
    nprev,          \* the column list before the last operation
    nop,            \* the last operation applied
    nerr,           \* the exception it raised, or "none"
    napplied,       \* number of operations applied
    nkind,          \* "workbook" columns (publish side) or "remote" columns (export side)
    \* ---- remote base read by the export script, and one export run ----
    rtables,        \* tables of the base --base names, as the service holds them
    epc,            \* position of the running export script
    etables,        \* the list get_base_tables returned (the script's `bases`)
    ei,             \* index of the table the export loop is at
    files,          \* files written under {workbook}/tables: <<filename, document>>
    ecalls,         \* requests the export run has sent, in order
    elogged,        \* tables for which the loop logged "Error processing table"
    eraised,        \* tables whose process_table raised
    eoutcome,       \* how the export run ended
    \* ---- export functions applied to one input ----
    ukind,          \* "filename": two tables to name; "row": a record to convert
    utables,        \* the metadata of two tables of one base
    unames,         \* the filenames get_table_filename gave them, in order
    urow,           \* a remote record
    ucolumns,       \* the ordered column list it is converted against
    utuple          \* None, or the result of build_workbook_row_tuple

publishVars == <<metadata, tablesDir, tableFiles, bases, runs, pc, owner_email,
                 base_id, tables, ti, rj, columns_with_id, calls, logged, raised,
                 outcome, startBase>>
normVars == <<ncols, nprev, nop, nerr, napplied, nkind>>
exportVars == <<rtables, epc, etables, ei, files, ecalls, elogged, eraised, eoutcome>>
unitVars == <<ukind, utables, unames, urow, ucolumns, utuple>>
vars == <<publishVars, normVars, exportVars, unitVars>>

----------------------------------------------------------------------------
\* Bounds of the model.
MaxTables == 3      \* table documents in the workbook
MaxRuns == 2        \* sequential publish runs
MaxCols == 3        \* columns of a list given to the normalizer
MaxFilterCols == 4  \* columns of a list given to the system-column filter only
MaxApply == 2       \* normalizer operations applied in a row
MaxRemoteTables == 3 \* tables of the exported base

None == <<>>
Some(x) == <<x>>

Min(a, b) == IF a <= b THEN a ELSE b

----------------------------------------------------------------------------
\* Columns of a workbook table document: title, uidt, pv (absent pv is falsy).
Col(t, u, p) == [title |-> t, uidt |-> u, pv |-> p]

\* set_pv_if_not_exists: columns[0] of an empty list raises IndexError.
set_pv_if_not_exists(columns) ==
    IF \E i \in DOMAIN columns : columns[i].pv
    THEN [err |-> "none", val |-> columns]
    ELSE IF Len(columns) = 0
         THEN [err |-> "IndexError", val |-> columns]
         ELSE [err |-> "none",
               val |-> [columns EXCEPT ![1] = [@ EXCEPT !.pv = TRUE]]]

\* The synthesized identity column. It has no pv key, which reads as falsy.
id_column == Col("Id", "ID", FALSE)

add_id_column_if_not_exists(columns) ==
    IF \E i \in DOMAIN columns : columns[i].title = "Id"
    THEN columns
    ELSE <<id_column>> \o columns

\* set_id_for_row: row.insert(0, row_id)
set_id_for_row(row, row_id) == <<row_id>> \o row

\* A Python dict as the sequence of its <<key, value>> items in insertion order.
\* d[k] = v keeps the place of a key that is already there.
DictSet(d, k, v) ==
    IF \E i \in DOMAIN d : d[i][1] = k
    THEN [i \in DOMAIN d |-> IF d[i][1] = k THEN <<k, v>> ELSE d[i]]
    ELSE Append(d, <<k, v>>)

\* build_nocodb_row: zip stops at the shorter of the two lists.
RECURSIVE build_nocodb_row_upto(_, _, _)
build_nocodb_row_upto(columns, row, n) ==
    IF n = 0 THEN <<>>
    ELSE DictSet(build_nocodb_row_upto(columns, row, n - 1), columns[n].title, row[n])

build_nocodb_row(columns, row) ==
    build_nocodb_row_upto(columns, row, Min(Len(columns), Len(row)))

----------------------------------------------------------------------------
\* Workbook directory.
Name == Col("Name", "SingleLineText", FALSE)
Number == Col("Number", "Number", FALSE)

Row(id, values) == [id |-> id, values |-> values]

\* Table documents: a well-formed one, one without rows, one without the title
\* key, one with an empty column list, one with a row that is one value short.
DocPlain == [hasTitle |-> TRUE, title |-> "plain", columns |-> <<Name, Number>>,
             rows |-> <<Row("r1", <<"a", "1">>), Row("r2", <<"b", "2">>)>>]
DocNoRows == [hasTitle |-> TRUE, title |-> "norows", columns |-> <<Name>>,
              rows |-> <<>>]
DocNoTitle == [hasTitle |-> FALSE, title |-> "", columns |-> <<Name>>,
               rows |-> <<Row("r1", <<"a">>)>>]
DocNoCols == [hasTitle |-> TRUE, title |-> "nocols", columns |-> <<>>,
              rows |-> <<>>]
DocShortRow == [hasTitle |-> TRUE, title |-> "short", columns |-> <<Name, Number>>,
                rows |-> <<Row("r1", <<"a">>)>>]
TableDocs == {DocPlain, DocNoRows, DocNoTitle, DocNoCols, DocShortRow}

SeqsUpTo(S, n) == UNION {[1..k -> S] : k \in 0..n}

workbook_path == <<"w", "b">>
workbook_title == <<"T">>
owner_name == <<"n">>
Emails == {<<"a">>, <<"b">>}

\* get_workbook_tables: the documents of tables/*.yaml in filename order, each
\* given its table_id (the filename, which is its position here).
get_workbook_tables(docs) ==
    [k \in DOMAIN docs |->
        [hasTitle |-> docs[k].hasTitle, title |-> docs[k].title,
         columns |-> docs[k].columns, rows |-> docs[k].rows, table_id |-> k]]

----------------------------------------------------------------------------
\* Remote service.
TitleMax == 50

base_title(email) ==
    workbook_title \o <<" ", "(">> \o owner_name \o <<",", " ">> \o email \o <<")">>

base_description(email) == workbook_path \o <<":">> \o email

Truncate(s, n) == SubSeq(s, 1, Min(n, Len(s)))

\* check_base_exists over the list the service returned, with a plausible slip:
\* compares the title instead of the description.
check_base_exists_by_title(list, description) ==
    IF \E i \in DOMAIN list : list[i].title = description
    THEN Some(list[CHOOSE i \in DOMAIN list :
                     /\ list[i].title = description
                     /\ \A j \in 1..(i - 1) : list[j].title # description].id)
    ELSE None

check_base_exists(list, description) ==
    IF \E i \in DOMAIN list : list[i].description = description
    THEN Some(list[CHOOSE i \in DOMAIN list :
                     /\ list[i].description = description
                     /\ \A j \in 1..(i - 1) : list[j].description # description].id)
    ELSE None

BaseExists(id) == \E i \in DOMAIN bases : Some(bases[i].id) = id

Call(op, target, arg, ok) == [op |-> op, target |-> target, arg |-> arg, ok |-> ok]

----------------------------------------------------------------------------
\* publish_workbook, one step at a time.

Init ==
    /\ metadata \in {"ok", "notitle", "missing", "empty"}
    /\ tablesDir \in BOOLEAN
    /\ tableFiles \in SeqsUpTo(TableDocs, MaxTables)
    /\ bases = <<>>
    /\ runs = 0
    /\ pc = "idle"
    /\ owner_email = <<>>
    /\ base_id = None
    /\ tables = <<>>
    /\ ti = 0
    /\ rj = 0
    /\ columns_with_id = <<>>
    /\ calls = <<>>
    /\ logged = {}
    /\ raised = {}
    /\ outcome = "none"
    /\ startBase = None
    /\ ncols = <<>> /\ nprev = <<>> /\ nop = "none" /\ nerr = "none"
    /\ napplied = 0 /\ nkind = "none"
    /\ rtables = <<>> /\ epc = "off" /\ etables = <<>> /\ ei = 0 /\ files = <<>>
    /\ ecalls = <<>> /\ elogged = {} /\ eraised = {} /\ eoutcome = "none"
    /\ ukind = "none" /\ utables = <<>> /\ unames = <<>>
    /\ urow = <<>> /\ ucolumns = <<>> /\ utuple = None

Finish(how) ==
    /\ pc' = "done"
    /\ outcome' = how

\* The script is started: python nocodb-publish.py --workbook w --owner-email e
StartRun ==
    /\ pc \in {"idle", "done"}
    /\ runs < MaxRuns
    /\ \E e \in Emails :
        /\ owner_email' = e
        /\ startBase' = check_base_exists(bases, base_description(e))
    /\ runs' = runs + 1
    /\ pc' = "metadata"
    /\ base_id' = None
    /\ tables' = <<>>
    /\ ti' = 0
    /\ rj' = 0
    /\ columns_with_id' = <<>>
    /\ calls' = <<>>
    /\ logged' = {}
    /\ raised' = {}
    /\ outcome' = "none"
    /\ UNCHANGED <<metadata, tablesDir, tableFiles, bases>>
    /\ UNCHANGED <<normVars, exportVars, unitVars>>

\* get_workbook_metadata, called first by publish_workbook, and the title read
\* from its result for base_title (KeyError when the document has no title).
ReadMetadata ==
    /\ pc = "metadata"
    /\ CASE metadata = "ok" -> pc' = "resolve" /\ UNCHANGED outcome
         [] metadata = "notitle" -> Finish("exception")
         [] OTHER -> Finish("exit1")
    /\ UNCHANGED <<metadata, tablesDir, tableFiles, bases, runs, owner_email,
                   base_id, tables, ti, rj, columns_with_id, calls, logged,
                   raised, startBase>>
    /\ UNCHANGED <<normVars, exportVars, unitVars>>

\* check_base_exists: GET meta/bases, then the scan for the description.
ResolveBase ==
    /\ pc = "resolve"
    /\ \E ok \in BOOLEAN :
        /\ calls' = Append(calls, Call("list_bases", None, None, ok))
        /\ IF ok
           THEN LET found == check_base_exists(bases, base_description(owner_email))
                IN  /\ base_id' = found
                    /\ pc' = IF found # None THEN "grant" ELSE "create"
                    /\ UNCHANGED outcome
           ELSE /\ Finish("exception")
                /\ UNCHANGED base_id
    /\ UNCHANGED <<metadata, tablesDir, tableFiles, bases, runs, owner_email,
                   tables, ti, rj, columns_with_id, logged, raised, startBase>>
    /\ UNCHANGED <<normVars, exportVars, unitVars>>

\* nocodb_create_base, which returns the response whatever its status, and the
\* caller's base_response.json().get("id"). The service answers 200 with the new
\* id, or an error whose body is JSON without an id, or an error whose body is
\* not JSON (json() raises).
CreateBase ==
    /\ pc = "create"
    /\ \E answer \in {"ok", "error_json", "error_text"} :
        /\ calls' = Append(calls, Call("create_base", None,
                                       base_description(owner_email), answer = "ok"))
        /\ CASE answer = "ok" ->
                    LET id == Len(bases) + 1
                    IN  /\ bases' = Append(bases,
                              [id |-> id,
                               title |-> Truncate(base_title(owner_email), TitleMax),
                               description |-> base_description(owner_email)])
                        /\ base_id' = Some(id)
                        /\ pc' = "grant"
                        /\ UNCHANGED outcome
             [] answer = "error_json" ->
                    /\ base_id' = None
                    /\ pc' = "grant"
                    /\ UNCHANGED <<bases, outcome>>
             [] answer = "error_text" ->
                    /\ Finish("exception")
                    /\ UNCHANGED <<bases, base_id>>
    /\ UNCHANGED <<metadata, tablesDir, tableFiles, runs, owner_email, tables, ti,
                   rj, columns_with_id, logged, raised, startBase>>
    /\ UNCHANGED <<normVars, exportVars, unitVars>>

\* The answers the service can give to a request on base id: it cannot succeed
\* on a base it does not hold.
BaseAnswers(id) == IF BaseExists(id) THEN BOOLEAN ELSE {FALSE}

\* nocodb_create_user with a plausible slip: the failure is caught and the run
\* goes on.
GrantAccessSwallowed ==
    /\ pc = "grant"
    /\ \E ok \in BaseAnswers(base_id) :
        /\ calls' = Append(calls, Call("grant", base_id,
                                       [email |-> owner_email, roles |-> "owner"], ok))
        /\ pc' = "tables"
        /\ UNCHANGED outcome
    /\ UNCHANGED <<metadata, tablesDir, tableFiles, bases, runs, owner_email,
                   base_id, tables, ti, rj, columns_with_id, logged, raised,
                   startBase>>
    /\ UNCHANGED <<normVars, exportVars, unitVars>>

\* nocodb_create_user(base_id, owner_email): POST meta/bases/{base_id}/users.
GrantAccess ==
    /\ pc = "grant"
    /\ \E ok \in BaseAnswers(base_id) :
        /\ calls' = Append(calls, Call("grant", base_id,
                                       [email |-> owner_email, roles |-> "owner"], ok))
        /\ IF ok
           THEN pc' = "tables" /\ UNCHANGED outcome
           ELSE Finish("exception")
    /\ UNCHANGED <<metadata, tablesDir, tableFiles, bases, runs, owner_email,
                   base_id, tables, ti, rj, columns_with_id, logged, raised,
                   startBase>>
    /\ UNCHANGED <<normVars, exportVars, unitVars>>

\* The for loop of publish_base moves to the table after ti, or the run returns.
NextTable(n) ==
    IF ti < n
    THEN /\ ti' = ti + 1
         /\ pc' = "table"
         /\ UNCHANGED outcome
    ELSE /\ ti' = ti
         /\ Finish("returned")

\* publish_base up to its loop: get_workbook_tables.
LoadTables ==
    /\ pc = "tables"
    /\ IF tablesDir
       THEN /\ tables' = get_workbook_tables(tableFiles)
            /\ NextTable(Len(tableFiles))
       ELSE /\ Finish("exit1")
            /\ UNCHANGED <<tables, ti>>
    /\ UNCHANGED <<metadata, tablesDir, tableFiles, bases, runs, owner_email,
                   base_id, rj, columns_with_id, calls, logged, raised, startBase>>
    /\ UNCHANGED <<normVars, exportVars, unitVars>>

\* The except clause of publish_base: it formats table['title'] into the log line,
\* which raises KeyError out of the handler when the document has no title.
TableFailed ==
    /\ raised' = raised \cup {ti}
    /\ IF tables[ti].hasTitle
       THEN /\ logged' = logged \cup {ti}
            /\ NextTable(Len(tables))
       ELSE /\ Finish("exception")
            /\ UNCHANGED <<logged, ti>>

\* publish_table_to_nocodb up to its row loop: the log line with the title, the
\* two column passes, POST meta/bases/{base_id}/tables.
CreateTable ==
    /\ pc = "table"
    /\ LET table == tables[ti]
           with_pv == set_pv_if_not_exists(table.columns)
       IN  IF ~table.hasTitle \/ with_pv.err # "none"
           THEN /\ TableFailed
                /\ UNCHANGED <<calls, columns_with_id, rj>>
           ELSE \E ok \in BaseAnswers(base_id) :
                LET cols == add_id_column_if_not_exists(with_pv.val)
                IN  /\ calls' = Append(calls,
                                       Call("create_table", base_id,
                                            [table_id |-> table.table_id,
                                             columns |-> cols], ok))
                    /\ IF ok
                       THEN /\ columns_with_id' = cols
                            /\ rj' = 0
                            /\ pc' = "rows"
                            /\ UNCHANGED <<raised, logged, ti, outcome>>
                       ELSE /\ TableFailed
                            /\ UNCHANGED <<columns_with_id, rj>>
    /\ UNCHANGED <<metadata, tablesDir, tableFiles, bases, runs, owner_email,
                   base_id, tables, startBase>>
    /\ UNCHANGED <<normVars, exportVars, unitVars>>

\* The row loop with a plausible slip: the insert is wrapped in its own try, a
\* failed insert is logged and the loop goes on with the next row.
AddRowSwallowed ==
    /\ pc = "rows"
    /\ LET rows == tables[ti].rows
       IN  IF rj < Len(rows)
           THEN LET row == rows[rj + 1]
                    row_with_id == set_id_for_row(row.values, row.id)
                    nocodb_row == build_nocodb_row(columns_with_id, row_with_id)
                IN  \E ok \in BOOLEAN :
                    /\ calls' = Append(calls,
                                       Call("add_row", tables[ti].table_id,
                                            [row_id |-> row.id, data |-> nocodb_row],
                                            ok))
                    /\ rj' = rj + 1
                    /\ UNCHANGED <<pc, ti, raised, logged, outcome>>
           ELSE /\ NextTable(Len(tables))
                /\ UNCHANGED <<calls, rj, raised, logged>>
    /\ UNCHANGED <<metadata, tablesDir, tableFiles, bases, runs, owner_email,
                   base_id, tables, columns_with_id, startBase>>
    /\ UNCHANGED <<normVars, exportVars, unitVars>>

\* One turn of the row loop of publish_table_to_nocodb: set_id_for_row,
\* build_nocodb_row, POST tables/{table_id}/records. After the last row the
\* function returns and the loop of publish_base goes on.
AddRow ==
    /\ pc = "rows"
    /\ LET rows == tables[ti].rows
       IN  IF rj < Len(rows)
           THEN LET row == rows[rj + 1]
                    row_with_id == set_id_for_row(row.values, row.id)
                    nocodb_row == build_nocodb_row(columns_with_id, row_with_id)
                IN  \E ok \in BOOLEAN :
                    /\ calls' = Append(calls,
                                       Call("add_row", tables[ti].table_id,
                                            [row_id |-> row.id, data |-> nocodb_row],
                                            ok))
                    /\ IF ok
                       THEN /\ rj' = rj + 1
                            /\ UNCHANGED <<pc, ti, raised, logged, outcome>>
                       ELSE /\ TableFailed
                            /\ UNCHANGED rj
           ELSE /\ NextTable(Len(tables))
                /\ UNCHANGED <<calls, rj, raised, logged>>
    /\ UNCHANGED <<metadata, tablesDir, tableFiles, bases, runs, owner_email,
                   base_id, tables, columns_with_id, startBase>>
    /\ UNCHANGED <<normVars, exportVars, unitVars>>

Next ==
    \/ StartRun
    \/ ReadMetadata
    \/ ResolveBase
    \/ CreateBase
    \/ GrantAccess
    \/ LoadTables
    \/ CreateTable
    \/ AddRow

\* Sequential publish runs on one workbook directory.
Spec == Init /\ [][Next]_vars

----------------------------------------------------------------------------
\* Export side of the normalizer (nocodb-save.py).

\* A column as the service returns it. meta is None when the key is absent,
\* else the dict with its defaultViewColOrder (None or a number).
RemoteCol(t, u, p, m) ==
    [title |-> t, description |-> None, uidt |-> u, pv |-> p, meta |-> m]
NoMeta == None
MetaOrder(o) == Some([defaultViewColOrder |-> o])

\* SKIP_COLUMNS as someone would write it who wants the identity column kept.
SKIP_COLUMNS_keeping_id ==
    {"CreatedAt", "nc_created_by", "UpdatedAt", "nc_updated_by", "nc_order",
     "LastModifiedBy", "Date", "Nomer"}

\* "Nomer" stands for the Cyrillic title of the source's last entry.
SKIP_COLUMNS ==
    {"Id", "CreatedAt", "nc_created_by", "UpdatedAt", "nc_updated_by", "nc_order",
     "LastModifiedBy", "Date", "Nomer"}

\* filtered_columns of build_workbook
filter_system_columns(columns) ==
    SelectSeq(columns, LAMBDA column : column.title \notin SKIP_COLUMNS)

\* The sort key of build_workbook: x.get("meta", {}).get("defaultViewColOrder")
ColOrderKey(x) == IF x.meta = None THEN None ELSE x.meta[1].defaultViewColOrder

\* Stable insertion by a numeric key: after every element whose key is not larger.
InsertByKey(sorted, x) ==
    LET n == Cardinality({i \in DOMAIN sorted :
                            ColOrderKey(sorted[i])[1] <= ColOrderKey(x)[1]})
    IN  SubSeq(sorted, 1, n) \o <<x>> \o SubSeq(sorted, n + 1, Len(sorted))

RECURSIVE SortedUpto(_, _)
SortedUpto(columns, n) ==
    IF n = 0 THEN <<>> ELSE InsertByKey(SortedUpto(columns, n - 1), columns[n])

\* ordered_columns of build_workbook: sorted(filtered_columns, key=...). sorted is
\* stable and compares keys with <; it compares every element of a list of two
\* or more with some other, and < on None raises TypeError.
ordered_columns(columns) ==
    IF Len(columns) >= 2 /\ \E i \in DOMAIN columns : ColOrderKey(columns[i]) = None
    THEN [err |-> "TypeError", val |-> columns]
    ELSE [err |-> "none", val |-> SortedUpto(columns, Len(columns))]

----------------------------------------------------------------------------
\* The normalizer's functions applied to one column list.

WorkbookCols ==
    {Col(t, u, p) : t \in {"Id", "Name", "Number"}, u \in {"ID", "SingleLineText"},
                    p \in BOOLEAN}
FilterCols ==
    {RemoteCol(t, "SingleLineText", None, NoMeta) :
        t \in {"Id", "Name", "CreatedAt", "Number"}}
OrderCols ==
    {RemoteCol(t, "SingleLineText", None, m) :
        t \in {"A", "B", "C"},
        m \in {NoMeta, MetaOrder(None), MetaOrder(Some(1)), MetaOrder(Some(2))}}

NormInit ==
    /\ nkind \in {"workbook", "remote"}
    /\ ncols \in IF nkind = "workbook"
                 THEN SeqsUpTo(WorkbookCols, MaxCols)
                 ELSE SeqsUpTo(FilterCols, MaxFilterCols) \cup SeqsUpTo(OrderCols, MaxCols)
    /\ nprev = <<>> /\ nop = "none" /\ nerr = "none" /\ napplied = 0
    /\ metadata = "ok" /\ tablesDir = TRUE /\ tableFiles = <<>> /\ bases = <<>>
    /\ runs = 0 /\ pc = "off" /\ owner_email = <<>> /\ base_id = None
    /\ tables = <<>> /\ ti = 0 /\ rj = 0 /\ columns_with_id = <<>> /\ calls = <<>>
    /\ logged = {} /\ raised = {} /\ outcome = "none" /\ startBase = None
    /\ rtables = <<>> /\ epc = "off" /\ etables = <<>> /\ ei = 0 /\ files = <<>>
    /\ ecalls = <<>> /\ elogged = {} /\ eraised = {} /\ eoutcome = "none"
    /\ ukind = "none" /\ utables = <<>> /\ unames = <<>>
    /\ urow = <<>> /\ ucolumns = <<>> /\ utuple = None

Applied(op, result) ==
    /\ napplied < MaxApply
    /\ nerr = "none"
    /\ nprev' = ncols
    /\ nop' = op
    /\ nerr' = result.err
    /\ ncols' = result.val
    /\ napplied' = napplied + 1
    /\ UNCHANGED <<nkind, publishVars, exportVars, unitVars>>

ApplySetPv ==
    /\ nkind = "workbook"
    /\ Applied("set_pv", set_pv_if_not_exists(ncols))

ApplyAddId ==
    /\ nkind = "workbook"
    /\ Applied("add_id", [err |-> "none", val |-> add_id_column_if_not_exists(ncols)])

ApplyFilter ==
    /\ nkind = "remote"
    /\ Applied("filter", [err |-> "none", val |-> filter_system_columns(ncols)])

ApplyOrder ==
    /\ nkind = "remote"
    /\ Applied("order", ordered_columns(ncols))

NormNext ==
    \/ ApplySetPv
    \/ ApplyAddId
    \/ ApplyFilter
    \/ ApplyOrder

\* The normalizer's functions on every column list within the bounds.
SpecNorm == NormInit /\ [][NormNext]_vars

----------------------------------------------------------------------------
\* Export run (nocodb-save.py).

\* build_workbook_columns: each field, or its default when the field is falsy.
build_workbook_columns(column) ==
    [title |-> column.title,
     description |-> IF column.description = None THEN "" ELSE column.description[1],
     uidt |-> column.uidt,
     pv |-> IF column.pv = None THEN FALSE ELSE column.pv[1]]

\* A remote record is a function from the titles it holds to Optional values.
\* The row id is the record's "Id" as it is (Optional); the data are plain values.
\* build_workbook_row_tuple: the test for an absent column assigns "" and then
\* falls through to row[column_name], which raises KeyError.
build_workbook_row_tuple(row, columns) ==
    IF "Id" \notin DOMAIN row \/ \E i \in DOMAIN columns : columns[i].title \notin DOMAIN row
    THEN [err |-> "KeyError", val |-> <<>>]
    ELSE [err |-> "none",
          val |-> <<row["Id"],
                    [i \in DOMAIN columns |->
                        IF row[columns[i].title] = None THEN ""
                        ELSE row[columns[i].title][1]]>>]

\* dict([...]) over the row tuples, in the order of the records.
RECURSIVE RowsDict(_, _, _)
RowsDict(table_data, columns, n) ==
    IF n = 0 THEN <<>>
    ELSE LET t == build_workbook_row_tuple(table_data[n], columns).val
         IN  DictSet(RowsDict(table_data, columns, n - 1), t[1], t[2])

\* build_workbook after its two fetches: filter, order, assemble.
build_workbook(table_metadata, table_data) ==
    LET filtered_columns == filter_system_columns(table_metadata.columns)
        ordered == ordered_columns(filtered_columns)
    IN  IF ordered.err # "none"
        THEN [err |-> ordered.err, val |-> <<>>]
        ELSE IF \E n \in DOMAIN table_data :
                    build_workbook_row_tuple(table_data[n], ordered.val).err # "none"
        THEN [err |-> "KeyError", val |-> <<>>]
        ELSE [err |-> "none",
              val |-> [title |-> table_metadata.title,
                       description |-> table_metadata.description,
                       columns |-> [i \in DOMAIN ordered.val |->
                                       build_workbook_columns(ordered.val[i])],
                       rows |-> RowsDict(table_data, ordered.val, Len(table_data))]]

DigitChar == <<"0", "1", "2", "3", "4", "5", "6", "7", "8", "9">>

RECURSIVE Digits(_)
Digits(n) == IF n < 10 THEN <<DigitChar[n + 1]>>
             ELSE Digits(n \div 10) \o <<DigitChar[(n % 10) + 1]>>

\* format(n, "04d") for n >= 0: at least four digits, zero-padded on the left.
Pad04d(n) ==
    LET d == Digits(n)
    IN  IF Len(d) >= 4 THEN d ELSE [i \in 1..(4 - Len(d)) |-> "0"] \o d

\* get_table_filename: int(order * 10), zero-padded, then the id. The order is
\* held in hundredths, so that int(order * 10) is order100 \div 10.
get_table_filename(table_metadata) ==
    Pad04d(table_metadata.order100 \div 10) \o <<".">> \o table_metadata.id
        \o <<".", "y", "a", "m", "l">>

RId == RemoteCol("Id", "ID", None, MetaOrder(Some(1)))
RName == RemoteCol("Name", "SingleLineText", Some(TRUE), MetaOrder(Some(3)))
RNumber == RemoteCol("Number", "Number", None, MetaOrder(Some(2)))
RCreatedAt == RemoteCol("CreatedAt", "CreatedTime", None, MetaOrder(Some(4)))
RNote == RemoteCol("Note", "LongText", None, NoMeta)

Rec1 == [t \in {"Id", "Name", "Number", "CreatedAt"} |->
            IF t = "Id" THEN Some("1") ELSE IF t = "Number" THEN None ELSE Some("x")]
Rec2 == [t \in {"Id", "Name", "Number", "CreatedAt"} |->
            IF t = "Id" THEN Some("2") ELSE Some("y")]
RecShort == [t \in {"Id", "Name"} |-> IF t = "Id" THEN Some("1") ELSE Some("x")]

\* Remote tables: one with records, one without, one with a column that has no
\* order value, one with a record that lacks a field of a column.
RemotePlain == [title |-> "plain", description |-> "d", order100 |-> 100,
                columns |-> <<RId, RName, RCreatedAt, RNumber>>,
                records |-> <<Rec1, Rec2>>]
RemoteEmpty == [title |-> "empty", description |-> "", order100 |-> 150,
                columns |-> <<RId, RName>>, records |-> <<>>]
RemoteNoOrder == [title |-> "noorder", description |-> "", order100 |-> 155,
                  columns |-> <<RId, RName, RNote>>, records |-> <<>>]
RemoteShortRecord == [title |-> "shortrecord", description |-> "", order100 |-> 200,
                      columns |-> <<RId, RName, RNumber>>, records |-> <<RecShort>>]
RemoteTables == {RemotePlain, RemoteEmpty, RemoteNoOrder, RemoteShortRecord}

\* The service gives every table its own id and table_name.
WithIds(ts) ==
    [k \in DOMAIN ts |->
        [id |-> <<"t", DigitChar[k + 1]>>, table_name |-> <<"n", DigitChar[k + 1]>>,
         title |-> ts[k].title, description |-> ts[k].description,
         order100 |-> ts[k].order100, columns |-> ts[k].columns,
         records |-> ts[k].records]]

ExportInit ==
    /\ rtables \in {WithIds(ts) : ts \in SeqsUpTo(RemoteTables, MaxRemoteTables)}
    /\ epc = "list" /\ etables = <<>> /\ ei = 0 /\ files = <<>>
    /\ ecalls = <<>> /\ elogged = {} /\ eraised = {} /\ eoutcome = "none"
    /\ ncols = <<>> /\ nprev = <<>> /\ nop = "none" /\ nerr = "none"
    /\ napplied = 0 /\ nkind = "none"
    /\ metadata = "ok" /\ tablesDir = TRUE /\ tableFiles = <<>> /\ bases = <<>>
    /\ runs = 0 /\ pc = "off" /\ owner_email = <<>> /\ base_id = None
    /\ tables = <<>> /\ ti = 0 /\ rj = 0 /\ columns_with_id = <<>> /\ calls = <<>>
    /\ logged = {} /\ raised = {} /\ outcome = "none" /\ startBase = None
    /\ ukind = "none" /\ utables = <<>> /\ unames = <<>>
    /\ urow = <<>> /\ ucolumns = <<>> /\ utuple = None

\* The export loop moves to the table after ei, or the script ends.
ENextTable(n) ==
    IF ei < n
    THEN /\ ei' = ei + 1
         /\ epc' = "metadata"
         /\ UNCHANGED eoutcome
    ELSE /\ ei' = ei
         /\ epc' = "done"
         /\ eoutcome' = "completed"

\* bases = get_base_tables(NOCODB_BASE_ID), outside any try.
ListTables ==
    /\ epc = "list"
    /\ \E ok \in BOOLEAN :
        /\ ecalls' = Append(ecalls, Call("list_tables", None, None, ok))
        /\ IF ok
           THEN /\ etables' = rtables
                /\ ENextTable(Len(rtables))
           ELSE /\ epc' = "done"
                /\ eoutcome' = "exception"
                /\ UNCHANGED <<etables, ei>>
    /\ UNCHANGED <<rtables, files, elogged, eraised>>
    /\ UNCHANGED <<publishVars, normVars, unitVars>>

\* The except clause of the export loop, with a plausible slip: the exception is
\* raised again after the log line.
ETableFailedReraised ==
    /\ eraised' = eraised \cup {ei}
    /\ elogged' = elogged \cup {ei}
    /\ ei' = ei
    /\ epc' = "done"
    /\ eoutcome' = "exception"

\* The except clause of the export loop: log table['table_name'], continue.
ETableFailed ==
    /\ eraised' = eraised \cup {ei}
    /\ elogged' = elogged \cup {ei}
    /\ ENextTable(Len(etables))

\* process_table, first statement: get_table_metadata(table["id"]).
FetchTableMetadata ==
    /\ epc = "metadata"
    /\ \E ok \in BOOLEAN :
        /\ ecalls' = Append(ecalls, Call("table_metadata", etables[ei].id, None, ok))
        /\ IF ok
           THEN /\ epc' = "build"
                /\ UNCHANGED <<ei, eoutcome, eraised, elogged>>
           ELSE ETableFailed
    /\ UNCHANGED <<rtables, etables, files>>
    /\ UNCHANGED <<publishVars, normVars, unitVars>>

\* The rest of process_table: build_workbook (its own metadata fetch, the records
\* fetch whose failure leaves an empty list, the transformations), the filename,
\* the file.
BuildAndWrite ==
    /\ epc = "build"
    /\ \E metaOk \in BOOLEAN :
        IF ~metaOk
        THEN /\ ecalls' = Append(ecalls,
                                 Call("table_metadata", etables[ei].id, None, FALSE))
             /\ ETableFailed
             /\ UNCHANGED files
        ELSE \E dataOk \in BOOLEAN :
             LET table_metadata == etables[ei]
                 table_data == IF dataOk THEN table_metadata.records ELSE <<>>
                 workbook_table == build_workbook(table_metadata, table_data)
             IN  /\ ecalls' = ecalls \o
                        <<Call("table_metadata", table_metadata.id, None, TRUE),
                          Call("table_records", table_metadata.id, None, dataOk)>>
                 /\ IF workbook_table.err # "none"
                    THEN /\ ETableFailed
                         /\ UNCHANGED files
                    ELSE /\ files' = DictSet(files, get_table_filename(table_metadata),
                                             workbook_table.val)
                         /\ ENextTable(Len(etables))
                         /\ UNCHANGED <<eraised, elogged>>
    /\ UNCHANGED <<rtables, etables>>
    /\ UNCHANGED <<publishVars, normVars, unitVars>>

ExportNext ==
    \/ ListTables
    \/ FetchTableMetadata
    \/ BuildAndWrite

\* One export run on a base.
SpecExport == ExportInit /\ [][ExportNext]_vars

----------------------------------------------------------------------------
\* The export's functions applied to one input.

\* Code points of the characters of a filename.
CharCode(c) ==
    CASE c = "." -> 46
      [] c = "0" -> 48 [] c = "1" -> 49 [] c = "2" -> 50 [] c = "3" -> 51
      [] c = "4" -> 52 [] c = "5" -> 53 [] c = "6" -> 54 [] c = "7" -> 55
      [] c = "8" -> 56 [] c = "9" -> 57
      [] c = "_" -> 95
      [] c = "a" -> 97 [] c = "b" -> 98 [] c = "l" -> 108 [] c = "m" -> 109
      [] c = "t" -> 116 [] c = "x" -> 120 [] c = "y" -> 121

\* a < b for Python strings, the order sorted(os.listdir(tables_path)) reads the
\* files back in: the first differing character decides, a proper prefix is less.
StrLess(a, b) ==
    \E n \in 0..Min(Len(a), Len(b)) :
        /\ \A i \in 1..n : a[i] = b[i]
        /\ \/ n = Len(a) /\ n < Len(b)
           \/ n < Len(a) /\ n < Len(b) /\ CharCode(a[n + 1]) < CharCode(b[n + 1])

\* Table orders in hundredths: 1, 1.5, 1.55, 2, 999.9, 1000.
Orders == {100, 150, 155, 200, 99990, 100000}
TableIds == {<<"t", "b", "l", "_", "x">>, <<"t", "b", "l", "_", "a">>}
TableMetas == {[id |-> i, order100 |-> o] : i \in TableIds, o \in Orders}

\* Remote records over the fields Id, Name, Number: a field is absent, null or
\* a value.
Records ==
    UNION {[S -> {None, Some("x")}] : S \in SUBSET {"Id", "Name", "Number"}}
RowCols ==
    {RemoteCol(t, "SingleLineText", None, MetaOrder(Some(1))) : t \in {"Name", "Number"}}

UnitInit ==
    /\ ukind \in {"filename", "row"}
    /\ utables \in IF ukind = "filename"
                   THEN {ts \in [1..2 -> TableMetas] : ts[1].id # ts[2].id}
                   ELSE {<<>>}
    /\ unames = <<>>
    /\ urow \in IF ukind = "row" THEN Records ELSE {<<>>}
    /\ ucolumns \in IF ukind = "row" THEN SeqsUpTo(RowCols, MaxCols) ELSE {<<>>}
    /\ utuple = None
    /\ ncols = <<>> /\ nprev = <<>> /\ nop = "none" /\ nerr = "none"
    /\ napplied = 0 /\ nkind = "none"
    /\ metadata = "ok" /\ tablesDir = TRUE /\ tableFiles = <<>> /\ bases = <<>>
    /\ runs = 0 /\ pc = "off" /\ owner_email = <<>> /\ base_id = None
    /\ tables = <<>> /\ ti = 0 /\ rj = 0 /\ columns_with_id = <<>> /\ calls = <<>>
    /\ logged = {} /\ raised = {} /\ outcome = "none" /\ startBase = None
    /\ rtables = <<>> /\ epc = "off" /\ etables = <<>> /\ ei = 0 /\ files = <<>>
    /\ ecalls = <<>> /\ elogged = {} /\ eraised = {} /\ eoutcome = "none"

\* get_table_filename on the next of the two tables.
NameTable ==
    /\ ukind = "filename"
    /\ Len(unames) < Len(utables)
    /\ unames' = Append(unames, get_table_filename(utables[Len(unames) + 1]))
    /\ UNCHANGED <<ukind, utables, urow, ucolumns, utuple>>
    /\ UNCHANGED <<publishVars, normVars, exportVars>>

\* build_workbook_row_tuple on the record and the column list.
BuildRowTuple ==
    /\ ukind = "row"
    /\ utuple = None
    /\ utuple' = Some(build_workbook_row_tuple(urow, ucolumns))
    /\ UNCHANGED <<ukind, utables, unames, urow, ucolumns>>
    /\ UNCHANGED <<publishVars, normVars, exportVars>>

UnitNext ==
    \/ NameTable
    \/ BuildRowTuple

\* get_table_filename and build_workbook_row_tuple on every input within the bounds.
SpecUnit == UnitInit /\ [][UnitNext]_vars

----------------------------------------------------------------------------
\* Properties of the publish run (checked under Spec).

CallsOf(op) == {i \in DOMAIN calls : calls[i].op = op}

InTableStage == pc \in {"tables", "table", "rows"} \/ outcome = "returned"

\* C1: a run that starts when a base already carries its description
\* "{workbook_path}:{owner_email}" (an earlier run created it) issues no
\* create-base call, works on that base once check_base_exists has listed the
\* bases, and returns that base's id; no two bases ever carry one description.
C1_BaseReused ==
    /\ \A i, j \in DOMAIN bases :
          bases[i].description = bases[j].description => i = j
    /\ startBase # None =>
          /\ CallsOf("create_base") = {}
          /\ (pc = "grant" \/ InTableStage) =>
                /\ base_id = startBase
                /\ calls[1].op = "list_bases" /\ calls[1].ok

C1_SecondRunReturnedSameBase ==
    /\ runs = 2
    /\ outcome = "returned"
    /\ startBase # None
    /\ base_id = startBase
    /\ Len(bases) = 1
    /\ bases[1].description = base_description(owner_email)

\* Table k of the run is published completely: its create-table call and the
\* insert of each of its rows are in the run's requests.
Published(k) ==
    /\ \E i \in CallsOf("create_table") : calls[i].arg.table_id = tables[k].table_id
    /\ \A r \in DOMAIN tables[k].rows :
          \E i \in CallsOf("add_row") :
              /\ calls[i].target = tables[k].table_id
              /\ calls[i].arg.row_id = tables[k].rows[r].id

\* C2: when publish_table_to_nocodb raised for exactly one table k of a run that
\* has ended, the run reached its end, the tables logged as failed are {k}, and
\* every other table was published completely.
C2_SingleTableFailureIsolated ==
    (pc = "done" /\ Cardinality(raised) = 1) =>
        /\ outcome = "returned"
        /\ logged = raised
        /\ \A k \in DOMAIN tables \ raised : Published(k)

\* C4: after a create-base call that failed, the run sends no grant-access,
\* create-table or insert request and returns no base id.
C4_CreateBaseFailureAborts ==
    \A i \in CallsOf("create_base") :
        ~calls[i].ok =>
            /\ \A j \in (i + 1)..Len(calls) :
                  calls[j].op \notin {"grant", "create_table", "add_row"}
            /\ outcome # "returned"

\* C5: the requests of a run are in the order list-bases, at most one create-base,
\* at most one grant, then the tables. Every create-table and every insert comes
\* after the one grant of role owner to owner_email on base_id, which succeeded;
\* a grant that failed is the run's last request and the run ends with the error.
C5_GrantBeforeTables ==
    /\ Cardinality(CallsOf("grant")) <= 1
    /\ \A i \in CallsOf("list_bases") : i = 1
    /\ \A i \in CallsOf("create_base") : i = 2 /\ calls[1].ok
    /\ \A i \in CallsOf("grant") :
          /\ i = Cardinality(CallsOf("list_bases") \cup CallsOf("create_base")) + 1
          /\ calls[i].target = base_id
          /\ calls[i].arg = [email |-> owner_email, roles |-> "owner"]
          /\ ~calls[i].ok =>
                /\ i = Len(calls)
                /\ pc = "done" /\ outcome = "exception"
    /\ \A i \in CallsOf("create_table") \cup CallsOf("add_row") :
          \E j \in CallsOf("grant") : j < i /\ calls[j].ok /\ BaseExists(base_id)
    /\ InTableStage => \E j \in CallsOf("grant") : calls[j].ok

C5_TablesAfterGrant ==
    /\ outcome = "returned"
    /\ CallsOf("create_table") # {}
    /\ CallsOf("add_row") # {}
    /\ \E j \in CallsOf("grant") : calls[j].ok /\ calls[j].target = base_id

\* C6: a run that ended with a configuration error (sys.exit(1): metadata.yaml
\* missing or empty, tables directory missing) has sent no request.
C6_ConfigErrorBeforeRemote ==
    outcome = "exit1" => calls = <<>>

----------------------------------------------------------------------------
\* Properties of the normalizer (checked under SpecNorm).

Titles(columns) == [i \in DOMAIN columns |-> columns[i].title]

\* C7: after add_id_column_if_not_exists the list has the column titled "Id" with
\* uidt "ID" at index 0, exactly one column is titled "Id", and applying the
\* function again changes nothing.
C7_IdentityColumnFirst ==
    nop = "add_id" =>
        /\ Len(ncols) >= 1
        /\ ncols[1].title = "Id" /\ ncols[1].uidt = "ID"
        /\ Cardinality({i \in DOMAIN ncols : ncols[i].title = "Id"}) = 1
        /\ add_id_column_if_not_exists(ncols) = ncols

\* C8: set_pv_if_not_exists raises no error, its result has exactly one column
\* with pv true, and applying it again changes nothing.
C8_PrimaryValueUnique ==
    nop = "set_pv" =>
        /\ nerr = "none"
        /\ Cardinality({i \in DOMAIN ncols : ncols[i].pv}) = 1
        /\ set_pv_if_not_exists(ncols) = [err |-> "none", val |-> ncols]

\* The place among the survivors of the column at index i of the input.
RankAmong(kept, i) == Cardinality({j \in kept : j <= i})

\* The result holds exactly the input columns whose title is outside deny, in
\* their input order.
RemovesExactly(deny, input, output) ==
    LET kept == {i \in DOMAIN input : input[i].title \notin deny}
    IN  /\ Len(output) = Cardinality(kept)
        /\ \A i \in kept : output[RankAmong(kept, i)] = input[i]

\* C9 (amended): the filter removes exactly the columns titled "Id", "CreatedAt",
\* "nc_created_by", "UpdatedAt", "nc_updated_by", "nc_order", "LastModifiedBy",
\* "Date" or the localized number title, and keeps the others in their order:
\* [Id, Name, CreatedAt, Number] yields [Name, Number], "Id" is removed.
C9_SystemColumnsFiltered ==
    nop = "filter" =>
        /\ RemovesExactly({"Id", "CreatedAt", "nc_created_by", "UpdatedAt",
                           "nc_updated_by", "nc_order", "LastModifiedBy", "Date",
                           "Nomer"}, nprev, ncols)
        /\ Titles(nprev) = <<"Id", "Name", "CreatedAt", "Number">>
              => Titles(ncols) = <<"Name", "Number">>

C9_ExampleFiltered ==
    /\ nop = "filter"
    /\ Titles(nprev) = <<"Id", "Name", "CreatedAt", "Number">>
    /\ Titles(ncols) = <<"Name", "Number">>

\* C9 as claimed: the deny-list is the timestamps, the audit-by fields, the
\* internal ordering and the localized system titles, so that
\* [Id, Name, CreatedAt, Number] yields [Id, Name, Number].
C9_FilterKeepsId ==
    nop = "filter" =>
        /\ RemovesExactly({"CreatedAt", "nc_created_by", "UpdatedAt",
                           "nc_updated_by", "nc_order", "LastModifiedBy", "Date",
                           "Nomer"}, nprev, ncols)
        /\ Titles(nprev) = <<"Id", "Name", "CreatedAt", "Number">>
              => Titles(ncols) = <<"Id", "Name", "Number">>

\* The order the claim's example fixes: numbers ascending, a missing value last.
KeyNotAfter(a, b) == b = None \/ (a # None /\ a[1] <= b[1])

OrderKeys(columns) == [i \in DOMAIN columns |-> ColOrderKey(columns[i])]

\* C10: the ordering fails on no input; its result holds the input's columns
\* sorted by defaultViewColOrder, columns with an equal or missing value in their
\* input order; [A None, B 1, C None] is ordered as [B, A, C].
C10_OrderTotalStable ==
    nop = "order" =>
        /\ nerr = "none"
        /\ \E f \in [DOMAIN ncols -> DOMAIN nprev] :
              /\ \A i, j \in DOMAIN ncols : i # j => f[i] # f[j]
              /\ Len(ncols) = Len(nprev)
              /\ \A i \in DOMAIN ncols : ncols[i] = nprev[f[i]]
              /\ \A i, j \in DOMAIN ncols :
                    i < j => /\ KeyNotAfter(ColOrderKey(ncols[i]), ColOrderKey(ncols[j]))
                             /\ ColOrderKey(ncols[i]) = ColOrderKey(ncols[j])
                                   => f[i] < f[j]
        /\ (Titles(nprev) = <<"A", "B", "C">>
            /\ OrderKeys(nprev) = <<None, Some(1), None>>)
              => Titles(ncols) = <<"B", "A", "C">>

----------------------------------------------------------------------------
\* Properties of the export run (checked under SpecExport).

HasFile(k) ==
    \E f \in DOMAIN files : files[f][1] = get_table_filename(etables[k])

\* The tables the export loop is through with.
Processed == IF epc = "done" THEN 1..ei ELSE 1..(ei - 1)

\* C3: once the table list was obtained the run never ends with an error; a
\* table whose process_table raised is logged and has no file; every other table
\* the loop is through with has its file; at the end the loop is through with
\* every table of the list.
C3_ExportTableIsolation ==
    /\ (ecalls # <<>> /\ ecalls[1].ok) => eoutcome # "exception"
    /\ eraised \subseteq Processed /\ elogged = eraised
    /\ \A k \in Processed : HasFile(k) <=> k \notin eraised
    /\ \A k \in DOMAIN etables \ Processed : ~HasFile(k)
    /\ eoutcome = "completed" => Processed = DOMAIN etables

C3_MiddleTableFailed ==
    /\ eoutcome = "completed"
    /\ Len(etables) = 3
    /\ eraised = {2}
    /\ HasFile(1) /\ HasFile(3) /\ ~HasFile(2)

----------------------------------------------------------------------------
\* Properties of the export's functions (checked under SpecUnit).

\* The numeric prefix of a filename: what stands before its first ".".
NumericPrefix(name) ==
    SubSeq(name, 1, (CHOOSE i \in DOMAIN name :
                        name[i] = "." /\ \A j \in 1..(i - 1) : name[j] # ".") - 1)

\* C11: of two tables with order values a < b the filename of the first sorts
\* strictly before the filename of the second; tables with distinct order values
\* get distinct numeric prefixes; order 1.5 with id tbl_x gives "0015.tbl_x.yaml".
C11_FilenamesFollowOrder ==
    (ukind = "filename" /\ Len(unames) = 2) =>
        /\ utables[1].order100 < utables[2].order100 => StrLess(unames[1], unames[2])
        /\ utables[1].order100 # utables[2].order100
              => NumericPrefix(unames[1]) # NumericPrefix(unames[2])
        /\ (utables[1].order100 = 150 /\ utables[1].id = <<"t", "b", "l", "_", "x">>)
              => unames[1] = <<"0", "0", "1", "5", ".", "t", "b", "l", "_", "x",
                               ".", "y", "a", "m", "l">>

\* C12: build_workbook_row_tuple raises for no record that has its "Id"; its
\* value list is as long as the column list and holds at position i the record's
\* field for column i, or "" when the field is absent or null.
C12_RowTupleTotal ==
    (utuple # None /\ "Id" \in DOMAIN urow) =>
        /\ utuple[1].err = "none"
        /\ Len(utuple[1].val[2]) = Len(ucolumns)
        /\ \A i \in DOMAIN ucolumns :
              utuple[1].val[2][i] =
                  IF ucolumns[i].title \notin DOMAIN urow
                        \/ urow[ucolumns[i].title] = None
                  THEN "" ELSE urow[ucolumns[i].title][1]

----------------------------------------------------------------------------
\* Properties of the rows of a publish run (checked under Spec).

\* The create-table call of table k that the service accepted, if any.
CreatedCalls(k) ==
    {i \in CallsOf("create_table") : calls[i].arg.table_id = k /\ calls[i].ok}

\* The insert calls of table k, and the n-th of them in call order.
RowCalls(k) == {i \in CallsOf("add_row") : calls[i].target = k}

\* The loop of publish_base is through with table k.
TableDone(k) == k < ti \/ (pc = "done" /\ k <= ti)

\* C13: for a row whose number of values is not the number of the table's
\* columns (identity column included) minus one, no insert is sent, and the
\* table it belongs to ends as a failed table.
C13_RowLengthMismatchFailsFast ==
    \A k \in DOMAIN tables : \A i \in CreatedCalls(k) :
        \A r \in DOMAIN tables[k].rows :
            Len(tables[k].rows[r].values) # Len(calls[i].arg.columns) - 1 =>
                /\ \A c \in RowCalls(k) : calls[c].arg.row_id # tables[k].rows[r].id
                /\ TableDone(k) => k \in raised

\* C14 as claimed: a failed insert does not affect the other rows, so every row
\* of a created table that the loop is through with has been sent.
C14_FailedRowSwallowed ==
    \A k \in DOMAIN tables :
        (CreatedCalls(k) # {} /\ TableDone(k)) =>
            \A r \in DOMAIN tables[k].rows :
                \E c \in RowCalls(k) : calls[c].arg.row_id = tables[k].rows[r].id

\* C14 (amended): the rows of a table are sent in file order, one insert per
\* row; an insert that fails is the last insert of its table, the table is
\* logged as failed, and the loop of publish_base goes on with the next table.
C14_FailedRowAbortsTable ==
    \A k \in DOMAIN tables :
        /\ \A c \in RowCalls(k) :
              LET n == Cardinality({d \in RowCalls(k) : d <= c})
              IN  /\ n <= Len(tables[k].rows)
                  /\ calls[c].arg.row_id = tables[k].rows[n].id
                  /\ ~calls[c].ok =>
                        /\ \A d \in RowCalls(k) : d <= c
                        /\ k \in raised /\ k \in logged
                        /\ TableDone(k)
                        /\ outcome # "exception"
                              \/ \E j \in (k + 1)..Len(tables) : j \in raised
        /\ (TableDone(k) /\ k \notin raised) =>
              Cardinality(RowCalls(k)) = Len(tables[k].rows)

C14_LaterRowNotSentNextTablePublished ==
    /\ Len(tables) >= 2
    /\ Len(tables[1].rows) = 2
    /\ Cardinality(RowCalls(1)) = 1
    /\ \E c \in RowCalls(1) : ~calls[c].ok
    /\ logged = {1}
    /\ CreatedCalls(2) # {}
    /\ outcome = "returned"

----------------------------------------------------------------------------
\* Properties of empty tables in the export run (checked under SpecExport).

\* The requests of a kind the run sent for table k.
ECallsFor(op, k) ==
    {i \in DOMAIN ecalls : ecalls[i].op = op /\ ecalls[i].target = etables[k].id}

\* C15: a table the loop is through with, whose two metadata fetches succeeded
\* and whose records fetch failed or returned no record, is not a failed table:
\* its file is written and holds the table's title and description, the columns
\* outside the deny-list and an empty row mapping.
C15_EmptyTableWritten ==
    \A k \in Processed :
        (/\ \A i \in ECallsFor("table_metadata", k) : ecalls[i].ok
         /\ \E i \in ECallsFor("table_records", k) :
                ~ecalls[i].ok \/ etables[k].records = <<>>) =>
            /\ k \notin eraised
            /\ \E f \in DOMAIN files :
                  /\ files[f][1] = get_table_filename(etables[k])
                  /\ files[f][2].title = etables[k].title
                  /\ files[f][2].description = etables[k].description
                  /\ files[f][2].rows = <<>>
                  /\ {files[f][2].columns[c].title : c \in DOMAIN files[f][2].columns}
                        = {etables[k].columns[c].title : c \in DOMAIN etables[k].columns}
                              \ SKIP_COLUMNS

====
